---- MODULE Spec2Model ----
(***************************************************************************)
(* Timestamp-to-player synchronisation of roam-yts (src/src/index.ts):     *)
(* the Augmentation Pass (addTimestampButtons), the Mutation Watcher       *)
(* (initTimestampObserver / cleanupTimestampObserver) and the host         *)
(* renderer that mutates the document under them.                          *)
(*                                                                         *)
(* A text is a sequence of one-character strings, 1-based.  A position     *)
(* "after" a match is the index of the first character behind it; 0 means  *)
(* "no match" (JavaScript's null / -1).                                    *)
(***************************************************************************)
EXTENDS Integers, Sequences, FiniteSets, TLC

VARIABLES
    dom,          \* container -> sequence of leaves of its block content
    rendered,     \* container -> the text the host last rendered there
    observers,    \* number of MutationObservers connected to document.body
    YTSObserver,  \* TRUE iff window.YTSObserver holds an observer
    styles,       \* number of <style id="yts-styles"> elements in the head
    timers,       \* pending setTimeout callbacks: remaining ms, in FIFO order
    passEarly,    \* the last step ran a Pass while a younger timer was not yet due
    burstPasses,  \* Passes run by timers since the current burst began (capped)
    lastOp,       \* the operation that produced this state
    parent,       \* block container -> its parent block container, 0 if none
    iframes,      \* slot -> the src of the iframe there, NoFrame if none
    posted,       \* the messages posted to the iframes' windows, in order
    arg,          \* the input a function of the extension is applied to
    res,          \* what the functions have made of arg so far
    pc,           \* invocation of importYoutubeTranscript -> where it stands
    loaders,      \* the elements with id yts-loading in the body, in document
                  \* order: each the invocation that appended it
    job,          \* invocation in flight -> its insertMode and its segments
    api           \* invocation -> the fetch and createBlock calls of its run

watcherVars == <<dom, rendered, observers, YTSObserver, styles, timers,
                 passEarly, burstPasses, lastOp>>
playerVars == <<parent, iframes, posted>>
fnVars == <<arg, res>>
importVars == <<pc, loaders, job, api>>

vars == <<watcherVars, playerVars, fnVars, importVars>>

-----------------------------------------------------------------------------
(* Bounds of the model *)

MaxObservers == 2
MaxTimers == 3
MaxTokens == 5
MaxBlocks == 3
MaxFrames == 2
MaxClicks == 2
MaxInvocations == 2
MaxSegments == 2

(* setTimeout(addTimestampButtons, 100) *)
DebounceDelay == 100

Containers == {1, 2}

-----------------------------------------------------------------------------
(* Characters and texts *)

IsDigit(ch) == ch \in {"0", "1", "2", "3", "4", "5", "6", "7", "8", "9"}

\* the whitespace class of the regular expression
IsSpace(ch) == ch \in {" ", "\n", "\t"}

DigitValue(ch) ==
    CASE ch = "0" -> 0 [] ch = "1" -> 1 [] ch = "2" -> 2 [] ch = "3" -> 3
      [] ch = "4" -> 4 [] ch = "5" -> 5 [] ch = "6" -> 6 [] ch = "7" -> 7
      [] ch = "8" -> 8 [] ch = "9" -> 9

Min(a, b) == IF a <= b THEN a ELSE b

\* String.prototype.substring on 1-based inclusive bounds
Sub(t, a, b) == IF a > b THEN <<>> ELSE SubSeq(t, a, b)

\* does pat occur in t at position i
OccursAt(t, pat, i) ==
    /\ i >= 1
    /\ i + Len(pat) - 1 <= Len(t)
    /\ \A k \in 1..Len(pat) : t[i + k - 1] = pat[k]

\* String.prototype.indexOf(pat, from): the least position >= from, 0 if none
RECURSIVE IndexOf(_, _, _)
IndexOf(t, pat, from) ==
    IF from + Len(pat) - 1 > Len(t) THEN 0
    ELSE IF OccursAt(t, pat, from) THEN from
    ELSE IndexOf(t, pat, from + 1)

\* the position after the maximal run of digits that starts at i
RECURSIVE DigitRunEnd(_, _)
DigitRunEnd(t, i) ==
    IF i <= Len(t) /\ IsDigit(t[i]) THEN DigitRunEnd(t, i + 1) ELSE i

-----------------------------------------------------------------------------
\* ALL_TIMESTAMPS_PATTERN: an optional bold delimiter, the capture group
\* (an optional hour part "digits:", then "digits:" and exactly two digits),
\* an optional bold delimiter, and a lookahead for one whitespace character.

\* "digits:" and two digits at g: the position after them, or 0.  The run of
\* digits is greedy and must be followed by ':', so only the maximal run can
\* match.
MinSec(t, g) ==
    LET r == DigitRunEnd(t, g)
    IN  IF /\ r > g
           /\ r + 2 <= Len(t)
           /\ t[r] = ":"
           /\ IsDigit(t[r + 1])
           /\ IsDigit(t[r + 2])
        THEN r + 3 ELSE 0

\* the optional bold delimiter and the lookahead at e: the position after the
\* match (the lookahead consumes nothing), or 0.  The lookahead
\* needs a whitespace character: the end of the text does not satisfy it.
Trailer(t, e) ==
    IF e + 2 <= Len(t) /\ t[e] = "*" /\ t[e + 1] = "*" /\ IsSpace(t[e + 2])
    THEN e + 2
    ELSE IF e <= Len(t) /\ IsSpace(t[e]) THEN e
    ELSE 0

NoMatch == [gs |-> 0, ge |-> 0, end |-> 0]

\* the capture group and the rest of the pattern with the group starting at
\* g: first with the optional hour part, then (backtracking) without it
GroupAt(t, g) ==
    LET r  == DigitRunEnd(t, g)
        eh == IF r > g /\ r <= Len(t) /\ t[r] = ":" THEN MinSec(t, r + 1) ELSE 0
        em == MinSec(t, g)
    IN  IF eh # 0 /\ Trailer(t, eh) # 0
        THEN [gs |-> g, ge |-> eh, end |-> Trailer(t, eh)]
        ELSE IF em # 0 /\ Trailer(t, em) # 0
        THEN [gs |-> g, ge |-> em, end |-> Trailer(t, em)]
        ELSE NoMatch

\* the whole pattern tried at position i: the leading bold delimiter is taken
\* when it is there, and given up when the rest then fails
MatchAt(t, i) ==
    IF OccursAt(t, <<"*", "*">>, i) /\ GroupAt(t, i + 2) # NoMatch
    THEN GroupAt(t, i + 2)
    ELSE GroupAt(t, i)

\* RegExp.prototype.exec from lastIndex: the leftmost match at or after from
RECURSIVE Exec(_, _)
Exec(t, from) ==
    IF from > Len(t) THEN NoMatch
    ELSE IF MatchAt(t, from) # NoMatch THEN MatchAt(t, from)
    ELSE Exec(t, from + 1)

\* match[1] of every match of the exec loop, in order
RECURSIVE AllMatches(_, _)
AllMatches(t, from) ==
    LET m == Exec(t, from)
    IN  IF m = NoMatch THEN <<>>
        ELSE <<Sub(t, m.gs, m.ge - 1)>> \o AllMatches(t, m.end)

\* timestampMatches: the literals, each once, in order of first match
RECURSIVE Dedup(_, _)
Dedup(ms, acc) ==
    IF ms = <<>> THEN acc
    ELSE IF \E k \in 1..Len(acc) : acc[k] = Head(ms)
    THEN Dedup(Tail(ms), acc)
    ELSE Dedup(Tail(ms), Append(acc, Head(ms)))

timestampMatches(text) == Dedup(AllMatches(text, 1), <<>>)

-----------------------------------------------------------------------------
(* parseTimestamp *)

\* Number(part) of a run of digits
RECURSIVE ToNumber(_)
ToNumber(s) ==
    IF s = <<>> THEN 0
    ELSE ToNumber(Sub(s, 1, Len(s) - 1)) * 10 + DigitValue(s[Len(s)])

\* String.prototype.split(':')
RECURSIVE Split(_)
Split(s) ==
    LET k == IndexOf(s, <<":">>, 1)
    IN  IF k = 0 THEN <<s>>
        ELSE <<Sub(s, 1, k - 1)>> \o Split(Sub(s, k + 1, Len(s)))

\* parseTimestamp with every literal read as minutes and seconds
parseTimestampMinutesSeconds(timestamp) ==
    LET parts == [k \in 1..Len(Split(timestamp)) |-> ToNumber(Split(timestamp)[k])]
    IN  parts[1] * 60 + parts[2]

parseTimestamp(timestamp) ==
    LET parts == [k \in 1..Len(Split(timestamp)) |-> ToNumber(Split(timestamp)[k])]
    IN  IF Len(parts) = 3
        THEN parts[1] * 3600 + parts[2] * 60 + parts[3]
        ELSE parts[1] * 60 + parts[2]

-----------------------------------------------------------------------------
(* formatTimestamp *)

DigitChar(d) ==
    CASE d = 0 -> "0" [] d = 1 -> "1" [] d = 2 -> "2" [] d = 3 -> "3"
      [] d = 4 -> "4" [] d = 5 -> "5" [] d = 6 -> "6" [] d = 7 -> "7"
      [] d = 8 -> "8" [] d = 9 -> "9"

\* String(num) of a natural number
RECURSIVE ToDigits(_)
ToDigits(num) ==
    IF num < 10 THEN <<DigitChar(num)>>
    ELSE ToDigits(num \div 10) \o <<DigitChar(num % 10)>>

\* String.prototype.padStart(targetLength, "0")
RECURSIVE PadStart(_, _)
PadStart(s, targetLength) ==
    IF Len(s) >= targetLength THEN s ELSE PadStart(<<"0">> \o s, targetLength)

pad(num) == PadStart(ToDigits(num), 2)

\* formatTimestamp with the hours left out of the text
formatTimestampNoHours(ms) ==
    LET totalSeconds == ms \div 1000
        minutes      == (totalSeconds % 3600) \div 60
        seconds      == totalSeconds % 60
    IN  pad(minutes) \o <<":">> \o pad(seconds)

\* formatTimestamp with the minutes taken from the total, not from the hour
formatTimestampTotalMinutes(ms) ==
    LET totalSeconds == ms \div 1000
        hours        == totalSeconds \div 3600
        minutes      == totalSeconds \div 60
        seconds      == totalSeconds % 60
    IN  IF hours > 0
        THEN pad(hours) \o <<":">> \o pad(minutes) \o <<":">> \o pad(seconds)
        ELSE pad(minutes) \o <<":">> \o pad(seconds)

\* milliseconds to MM:SS, or HH:MM:SS from one hour on
formatTimestamp(ms) ==
    LET totalSeconds == ms \div 1000
        hours        == totalSeconds \div 3600
        minutes      == (totalSeconds % 3600) \div 60
        seconds      == totalSeconds % 60
    IN  IF hours > 0
        THEN pad(hours) \o <<":">> \o pad(minutes) \o <<":">> \o pad(seconds)
        ELSE pad(minutes) \o <<":">> \o pad(seconds)

-----------------------------------------------------------------------------
(* The document.  The block content of a container is the sequence of its  *)
(* text nodes in document order.  A leaf is one text node: its data, the   *)
(* number m of span.yts-timestamp elements around it (0: plain text, 1: a  *)
(* marker holding this text node) and, for a marker, the seconds its click *)
(* handler captured (-1: no handler).                                      *)

TextNode(data, depth) == [text |-> data, m |-> depth, secs |-> -1]

\* blockContent.textContent
RECURSIVE TextContent(_)
TextContent(content) ==
    IF content = <<>> THEN <<>>
    ELSE Head(content).text \o TextContent(Tail(content))

\* the parent check left out: every text node counts as unprocessed
IsMarkedNever(node) == FALSE

\* node.parentElement?.classList.contains('yts-timestamp')
IsMarked(node) == node.m > 0

Markers(content) == {j \in 1..Len(content) : content[j].m > 0}

\* the fragment with the text behind the timestamp cut one character late
FragmentAfterOffByOne(node, currentIdx, timestamp, seconds) ==
    LET before == Sub(node.text, 1, currentIdx - 1)
        after  == Sub(node.text, currentIdx + Len(timestamp) + 1, Len(node.text))
    IN  (IF before # <<>> THEN <<TextNode(before, node.m)>> ELSE <<>>)
        \o <<[text |-> timestamp, m |-> node.m + 1, secs |-> seconds]>>
        \o (IF after # <<>> THEN <<TextNode(after, node.m)>> ELSE <<>>)

\* the fragment whose marker reads every literal as minutes and seconds
FragmentMinutesSeconds(node, currentIdx, timestamp, seconds) ==
    LET before == Sub(node.text, 1, currentIdx - 1)
        after  == Sub(node.text, currentIdx + Len(timestamp), Len(node.text))
    IN  (IF before # <<>> THEN <<TextNode(before, node.m)>> ELSE <<>>)
        \o <<[text |-> timestamp, m |-> node.m + 1,
              secs |-> parseTimestampMinutesSeconds(timestamp)]>>
        \o (IF after # <<>> THEN <<TextNode(after, node.m)>> ELSE <<>>)

\* the fragment that replaces a text node: [before] span [after]
Fragment(node, currentIdx, timestamp, seconds) ==
    LET before == Sub(node.text, 1, currentIdx - 1)
        after  == Sub(node.text, currentIdx + Len(timestamp), Len(node.text))
    IN  (IF before # <<>> THEN <<TextNode(before, node.m)>> ELSE <<>>)
        \o <<[text |-> timestamp, m |-> node.m + 1, secs |-> seconds]>>
        \o (IF after # <<>> THEN <<TextNode(after, node.m)>> ELSE <<>>)

\* the inner while loop of the walk: one entry per occurrence in one node
RECURSIVE Occurrences(_, _, _)
Occurrences(nodeText, timestamp, searchIdx) ==
    LET idx == IndexOf(nodeText, timestamp, searchIdx)
    IN  IF idx = 0 THEN <<>>
        ELSE <<idx>> \o Occurrences(nodeText, timestamp, idx + Len(timestamp))

\* nodesToProcess: the tree walk over the text nodes from node j on; an entry
\* is <<node, idx>>, pushed unless the node's parent is a marker
RECURSIVE Walk(_, _, _)
Walk(content, timestamp, j) ==
    IF j > Len(content) THEN <<>>
    ELSE LET occ == Occurrences(content[j].text, timestamp, 1)
         IN  (IF IsMarked(content[j]) THEN <<>>
              ELSE [k \in 1..Len(occ) |-> <<j, occ[k]>>])
             \o Walk(content, timestamp, j + 1)

Reverse(s) == [k \in 1..Len(s) |-> s[Len(s) + 1 - k]]

\* the loop over nodesToProcess.reverse().  detached holds the nodes already
\* replaced: such a node has no parent any more, so its parent check passes
\* and its replaceChild is skipped (node.parentNode is null).  The index is
\* searched again from the start of the node's text; the recorded idx is not
\* used.  Nodes are replaced from the last to the first, so the positions of
\* the nodes still to come do not move.
RECURSIVE ProcessEntries(_, _, _, _, _)
ProcessEntries(content, entries, timestamp, seconds, detached) ==
    IF entries = <<>> THEN content
    ELSE LET j          == Head(entries)[1]
             node       == content[j]
             currentIdx == IndexOf(node.text, timestamp, 1)
         IN  IF j \in detached
             THEN ProcessEntries(content, Tail(entries), timestamp, seconds, detached)
             ELSE IF currentIdx = 0 \/ IsMarked(node)
             THEN ProcessEntries(content, Tail(entries), timestamp, seconds, detached)
             ELSE ProcessEntries(
                    Sub(content, 1, j - 1)
                      \o Fragment(node, currentIdx, timestamp, seconds)
                      \o Sub(content, j + 1, Len(content)),
                    Tail(entries), timestamp, seconds, detached \cup {j})

\* the body of "for (const {timestamp, seconds} of timestampMatches)"
RECURSIVE ProcessLiterals(_, _)
ProcessLiterals(content, literals) ==
    IF literals = <<>> THEN content
    ELSE ProcessLiterals(
           ProcessEntries(content, Reverse(Walk(content, Head(literals), 1)),
                          Head(literals), parseTimestamp(Head(literals)), {}),
           Tail(literals))

\* the callback of blockContainers.forEach for one container
AugmentContainer(content) ==
    ProcessLiterals(content, timestampMatches(TextContent(content)))

\* addTimestampButtons: the Augmentation Pass over the whole document
addTimestampButtons(d) == [c \in Containers |-> AugmentContainer(d[c])]

\* span.replaceWith(document.createTextNode(span.textContent)) for every
\* span.yts-timestamp
Unwrap(content) ==
    [j \in 1..Len(content) |->
        IF content[j].m > 0 THEN TextNode(content[j].text, 0) ELSE content[j]]

UnwrapAll(d) == [c \in Containers |-> Unwrap(d[c])]

-----------------------------------------------------------------------------
(* The block containers and the iframes.  The block containers are numbered *)
(* in document order; parent gives the nearest enclosing block container.   *)
(* A slot is a place an iframe can be at: the content of a block, which     *)
(* precedes the block's children, or the document outside every block.  A   *)
(* src is a sequence of pieces of a URL.                                    *)

Blocks == 1..MaxBlocks

\* the place of an iframe outside every block container, behind the blocks
Outside == MaxBlocks + 1

Slots == Blocks \cup {Outside}

\* no iframe at a slot
NoFrame == <<>>

\* null: no iframe found
NoPlayer == 0

\* the block containers that hold the block contents of dom: the last ones
BlockOf(c) == MaxBlocks - Cardinality(Containers) + c

Includes(src, piece) == IndexOf(src, piece, 1) # 0

\* the selector with the condition on src left out: any iframe
IsPlayerAnyFrame(src) == src # NoFrame

\* iframe[src*="youtube.com"], iframe[src*="youtu.be"]
IsPlayer(src) ==
    Includes(src, <<"youtube.com">>) \/ Includes(src, <<"youtu.be">>)

RECURSIVE Ancestors(_, _)
Ancestors(p, b) == IF p[b] = 0 THEN {} ELSE {p[b]} \cup Ancestors(p, p[b])

\* the block containers inside root, root included
Subtree(p, root) == {b \in Blocks : b = root \/ root \in Ancestors(p, b)}

\* the last of a set of slots in document order
Last(S) == IF S = {} THEN NoPlayer ELSE CHOOSE x \in S : \A y \in S : x >= y

\* the first of a set of slots in document order
First(S) == IF S = {} THEN NoPlayer ELSE CHOOSE x \in S : \A y \in S : x <= y

\* parentContainer.querySelector(selector)
querySelector(p, f, root) == First({b \in Subtree(p, root) : IsPlayer(f[b])})

\* document.querySelectorAll(selector)
querySelectorAll(f) == {slot \in Slots : IsPlayer(f[slot])}

\* the ancestors searched from the outermost inwards
ClimbFromRoot(p, f, current) ==
    querySelector(p, f, First({a \in Ancestors(p, current) :
                                  querySelector(p, f, a) # NoPlayer} \cup {current}))

\* the while loop: current is a block container, so closest() yields current
RECURSIVE Climb(_, _, _)
Climb(p, f, current) ==
    LET parentContainer == p[current]
    IN  IF parentContainer = 0 THEN NoPlayer
        ELSE LET iframe == querySelector(p, f, parentContainer)
             IN  IF iframe # NoPlayer THEN iframe
                 ELSE Climb(p, f, parentContainer)

\* findYouTubePlayer without the search of the whole document
findYouTubePlayerNoFallback(p, f, blockElement) == Climb(p, f, blockElement)

findYouTubePlayer(p, f, blockElement) ==
    LET iframe == Climb(p, f, blockElement)
    IN  IF iframe # NoPlayer THEN iframe ELSE First(querySelectorAll(f))

Flag == <<"enablejsapi", "=", "1">>

\* the flag appended whether or not the src holds it
EnableJsApiAlways(src) ==
    src \o <<IF Includes(src, <<"?">>) THEN "&" ELSE "?">> \o Flag

\* the src seekYouTubeVideo leaves
EnableJsApi(src) ==
    IF ~Includes(src, Flag)
    THEN src \o <<IF Includes(src, <<"?">>) THEN "&" ELSE "?">> \o Flag
    ELSE src

\* one message to the iframe's contentWindow: the envelope that is
\* stringified, and the target origin
PostMessage(iframe, func, args) ==
    [to |-> iframe, targetOrigin |-> "*",
     event |-> "command", func |-> func, args |-> args]

\* the two commands posted in the other order
CommandsPlayFirst(iframe, seconds) ==
    << PostMessage(iframe, "playVideo", <<>>),
       PostMessage(iframe, "seekTo", <<seconds, TRUE>>) >>

\* the two postMessage calls of seekYouTubeVideo
Commands(iframe, seconds) ==
    << PostMessage(iframe, "seekTo", <<seconds, TRUE>>),
       PostMessage(iframe, "playVideo", <<>>) >>

NoPlayers ==
    /\ parent = [b \in Blocks |-> 0]
    /\ iframes = [slot \in Slots |-> NoFrame]
    /\ posted = <<>>

\* nothing computed yet
NoResult == [stage |-> "none", text |-> <<>>, seconds |-> -1]

NoArg == arg = [kind |-> "none"] /\ res = NoResult

\* the invocations of the command that can be in flight at a time
Invocations == 1..MaxInvocations

\* an invocation that holds no transcript
NoJob == [insertMode |-> "", segments |-> 0]

\* an invocation that has called nothing
NoCalls == [fetch |-> 0, createBlock |-> 0]

\* no invocation of the command yet
NoImports ==
    /\ pc = [i \in Invocations |-> "idle"]
    /\ loaders = <<>>
    /\ job = [i \in Invocations |-> NoJob]
    /\ api = [i \in Invocations |-> NoCalls]

-----------------------------------------------------------------------------
(* What the host renders into a block: the data of its text nodes *)

Stamp == <<"0", ":", "0", "5">>
Bold == <<"*", "*">>

HostRenderings ==
    { <<Stamp \o <<" ", "a">>>>,
      <<Stamp \o <<" ">> \o Stamp \o <<"\n", "b">>>>,
      <<<<"1", ":", "0", "0", ":", "0", "5", " ">> \o Stamp \o <<" ">>>>,
      <<<<"a">>>> }

\* the data the host writes into an existing text node
HostData == { Stamp \o <<" ">> }

Render(r) == [j \in 1..Len(r) |-> TextNode(r[j], 0)]

-----------------------------------------------------------------------------
(* The MutationObserver callback and the timers *)

\* one delivery of mutation records to every connected observer.  n is the
\* number of connected observers, shouldUpdate whether a record has added
\* nodes or is a characterData change, pending the timers pending before the
\* delivery.  Every callback calls setTimeout(addTimestampButtons, 100); no
\* timer is ever cleared.
\* a mutation record: its type and the lengths of addedNodes and removedNodes
MutationRecord(type, added, removed) ==
    [type |-> type, addedNodes |-> added, removedNodes |-> removed]

\* the filter with the condition on the records left out
ShouldUpdateAnyRecord(mutations) == mutations # <<>>

\* the loop of the callback over the records of a batch
ShouldUpdate(mutations) ==
    \E k \in 1..Len(mutations) :
        mutations[k].addedNodes > 0 \/ mutations[k].type = "characterData"

\* the filter on the records left out: every delivery arms a timer
ArmedAlways(n, shouldUpdate) == n > 0

Armed(n, shouldUpdate) == shouldUpdate /\ n > 0

Deliver(pending, n, shouldUpdate) ==
    IF Armed(n, shouldUpdate)
    THEN pending \o [k \in 1..n |-> DebounceDelay]
    ELSE pending

TypeOK ==
    /\ observers \in 0..MaxObservers
    /\ YTSObserver \in BOOLEAN
    /\ styles \in 0..observers
    /\ Len(timers) <= MaxTimers
    /\ \A k \in 1..Len(timers) : timers[k] \in 0..DebounceDelay

Init ==
    /\ dom \in [Containers -> {Render(r) : r \in HostRenderings}]
    /\ rendered = [c \in Containers |-> TextContent(dom[c])]
    /\ observers = 0
    /\ YTSObserver = FALSE
    /\ styles = 0
    /\ timers = <<>>
    /\ passEarly = FALSE
    /\ burstPasses = 0
    /\ lastOp = "init"
    /\ NoPlayers
    /\ NoArg
    /\ NoImports

\* the bookkeeping of a delivery: a notification that finds no timer pending
\* begins a new burst
Notified(pending, n, shouldUpdate, passes) ==
    /\ timers' = Deliver(pending, n, shouldUpdate)
    /\ burstPasses' = IF Armed(n, shouldUpdate) /\ pending = <<>> THEN 0 ELSE passes

\* initTimestampObserver (onload): the style element, the initial scan, then a
\* new observer, stored in window.YTSObserver over whatever was there.  The
\* initial scan runs before observe(): only observers connected earlier see it.
Start ==
    /\ observers < MaxObservers
    /\ Len(timers) + observers <= MaxTimers
    /\ styles' = styles + 1
    /\ dom' = addTimestampButtons(dom)
    /\ Notified(timers, observers, dom' # dom, burstPasses)
    /\ observers' = observers + 1
    /\ YTSObserver' = TRUE
    /\ lastOp' = "start"
    /\ passEarly' = FALSE
    /\ UNCHANGED <<rendered, playerVars, fnVars,
                   importVars>>

\* cleanupTimestampObserver: disconnect the stored observer, remove the first
\* style element, unwrap every marker.  Observers that are still connected
\* see the text nodes that replace the markers.
cleanupTimestampObserver ==
    /\ Len(timers) + observers <= MaxTimers
    /\ observers' = IF YTSObserver THEN observers - 1 ELSE observers
    /\ YTSObserver' = FALSE
    /\ styles' = IF styles > 0 THEN styles - 1 ELSE 0
    /\ dom' = UnwrapAll(dom)
    /\ Notified(timers, observers', dom' # dom, burstPasses)
    /\ passEarly' = FALSE

\* the watcher is stopped
Stop ==
    /\ cleanupTimestampObserver
    /\ lastOp' = "stop"
    /\ UNCHANGED <<rendered, playerVars, fnVars, importVars>>

\* a timer fires: addTimestampButtons runs; the nodes it inserts are reported
\* to the connected observers when the task ends.  Every timer is armed with
\* the same delay, so the last timer of the queue is the one the latest
\* notification armed: the delay has elapsed since that notification iff that
\* timer is due.
Fire ==
    /\ timers # <<>>
    /\ Head(timers) = 0
    /\ Len(timers) - 1 + observers <= MaxTimers
    /\ dom' = addTimestampButtons(dom)
    /\ Notified(Tail(timers), observers, dom' # dom, Min(burstPasses + 1, 2))
    /\ lastOp' = "fire"
    /\ passEarly' = (timers[Len(timers)] # 0)
    /\ UNCHANGED <<rendered, observers, YTSObserver, styles, playerVars, fnVars,
                   importVars>>

\* time passes; a timer that is due fires before time passes further
Advance(d) ==
    /\ timers # <<>>
    /\ \A k \in 1..Len(timers) : timers[k] >= d
    /\ timers' = [k \in 1..Len(timers) |-> timers[k] - d]
    /\ lastOp' = "advance"
    /\ passEarly' = FALSE
    /\ UNCHANGED <<dom, rendered, observers, YTSObserver, styles, burstPasses,
                   playerVars, fnVars,
                   importVars>>

\* the host renders a block anew: its nodes are removed and new ones added
HostRender(c, r) ==
    /\ Len(timers) + observers <= MaxTimers
    /\ dom' = [dom EXCEPT ![c] = Render(r)]
    /\ rendered' = [rendered EXCEPT ![c] = TextContent(Render(r))]
    /\ Notified(timers, observers,
                ShouldUpdate(<<MutationRecord("childList", 0, Len(dom[c])),
                               MutationRecord("childList", Len(r), 0)>>),
                burstPasses)
    /\ lastOp' = "render"
    /\ passEarly' = FALSE
    /\ UNCHANGED <<observers, YTSObserver, styles, playerVars, fnVars,
                   importVars>>

\* the host changes the data of the text node of a block that holds one plain
\* text node (a characterData record)
HostCharData(c, data) ==
    /\ Len(timers) + observers <= MaxTimers
    /\ Len(dom[c]) = 1
    /\ dom[c][1].m = 0
    /\ dom[c][1].text # data
    /\ dom' = [dom EXCEPT ![c][1] = TextNode(data, 0)]
    /\ rendered' = [rendered EXCEPT ![c] = TextContent(dom'[c])]
    /\ Notified(timers, observers,
                ShouldUpdate(<<MutationRecord("characterData", 0, 0)>>),
                burstPasses)
    /\ lastOp' = "chardata"
    /\ passEarly' = FALSE
    /\ UNCHANGED <<observers, YTSObserver, styles, playerVars, fnVars,
                   importVars>>

\* the host removes the nodes of a block: records with removed nodes only
HostRemove(c) ==
    /\ dom[c] # <<>>
    /\ dom' = [dom EXCEPT ![c] = <<>>]
    /\ rendered' = [rendered EXCEPT ![c] = <<>>]
    /\ Notified(timers, observers,
                ShouldUpdate(<<MutationRecord("childList", 0, Len(dom[c]))>>),
                burstPasses)
    /\ lastOp' = "remove"
    /\ passEarly' = FALSE
    /\ UNCHANGED <<observers, YTSObserver, styles, playerVars, fnVars,
                   importVars>>

Next ==
    \/ Start
    \/ Stop
    \/ Fire
    \/ \E d \in {DebounceDelay \div 2, DebounceDelay} : Advance(d)
    \/ \E c \in Containers, r \in HostRenderings : HostRender(c, r)
    \/ \E c \in Containers, data \in HostData : HostCharData(c, data)
    \/ \E c \in Containers : HostRemove(c)

Spec == Init /\ [][Next]_vars

\* time passes
Tick == \E d \in {DebounceDelay \div 2, DebounceDelay} : Advance(d)

\* the timers a started watcher with one observer can have pending after a
\* burst of host mutations: older timers have less time left
PendingTimers ==
    {t \in UNION {[1..n -> {0, DebounceDelay \div 2, DebounceDelay}] : n \in 1..MaxTimers} :
        \A k \in 1..(Len(t) - 1) : t[k] <= t[k + 1]}

\* the host has just stopped mutating: the watcher is started, every block
\* is as the host rendered it or as a Pass left it since, and the timers the
\* mutations armed are pending
InitQuiet ==
    /\ dom \in [Containers -> {Render(r) : r \in HostRenderings}
                               \cup {AugmentContainer(Render(r)) : r \in HostRenderings}]
    /\ rendered = [c \in Containers |-> TextContent(dom[c])]
    /\ observers = 1
    /\ YTSObserver = TRUE
    /\ styles = 1
    /\ timers \in PendingTimers
    /\ passEarly = FALSE
    /\ burstPasses = 0
    /\ lastOp = "render"
    /\ NoPlayers
    /\ NoArg
    /\ NoImports

NextQuiet == Fire \/ Tick

\* the quiet host under the scheduling of the event loop: time passes, and a
\* timer that is due runs its callback
\* a timer is due and its callback can run
FireDue ==
    /\ timers # <<>>
    /\ Head(timers) = 0
    /\ Len(timers) - 1 + observers <= MaxTimers

\* weak fairness of Fire, written out with the condition that enables it: a
\* step of Fire always changes timers
FairFire == []<>(~FireDue) \/ []<><<Fire>>_vars

SpecQuiet == InitQuiet /\ [][NextQuiet]_vars /\ WF_vars(Tick) /\ FairFire

-----------------------------------------------------------------------------
(* The Augmentation Pass and the unwrapping of cleanup as functions of the  *)
(* document: the first container holds one text node with any text made of *)
(* at most MaxTokens tokens, no observer is connected and no timer pending. *)

PassTokens == { Stamp, <<"1", ":">>, <<" ">>, Bold, <<"0">> }

RECURSIVE TokenTexts(_)
TokenTexts(n) ==
    IF n = 0 THEN {<<>>}
    ELSE {<<>>} \cup {t \o w : t \in PassTokens, w \in TokenTexts(n - 1)}

InitPass ==
    /\ \E w \in TokenTexts(MaxTokens) \ {<<>>} :
           dom = [c \in Containers |->
                     IF c = 1 THEN <<TextNode(w, 0)>>
                     ELSE Render(<<Stamp \o <<" ", "a">>>>)]
    /\ rendered = [c \in Containers |-> TextContent(dom[c])]
    /\ observers = 0
    /\ YTSObserver = FALSE
    /\ styles = 0
    /\ timers = <<>>
    /\ passEarly = FALSE
    /\ burstPasses = 0
    /\ lastOp = "init"
    /\ NoPlayers
    /\ NoArg
    /\ NoImports

\* a call of addTimestampButtons
Pass ==
    /\ dom' = addTimestampButtons(dom)
    /\ lastOp' = "pass"
    /\ UNCHANGED <<rendered, observers, YTSObserver, styles, timers,
                   passEarly, burstPasses, playerVars, fnVars,
                   importVars>>

NextPass == Pass \/ Stop

SpecPass == InitPass /\ [][NextPass]_vars

-----------------------------------------------------------------------------
(* The click on a marker, over every forest of MaxBlocks block containers   *)
(* and every placement of at most MaxFrames iframes, in a document a Pass   *)
(* has augmented.                                                           *)

Embed == <<"https://www.", "youtube.com", "/embed/", "v">>

SrcSamples ==
    { Embed,
      <<"https://", "youtu.be", "/", "v", "?", "t", "=", "1">>,
      <<"https://player.", "vimeo.com", "/video/", "v">> }

\* the forests whose numbering is the document order
Trees ==
    {p \in [Blocks -> 0..MaxBlocks] :
        /\ \A b \in Blocks : p[b] < b
        /\ \A b \in Blocks \ {1} :
               p[b] = 0 \/ p[b] = b - 1 \/ p[b] \in Ancestors(p, b - 1)}

FrameLayouts ==
    {f \in [Slots -> SrcSamples \cup {NoFrame}] :
        Cardinality({slot \in Slots : f[slot] # NoFrame}) <= MaxFrames}

\* the document the clicks are made in: two rendered blocks after a Pass
ClickDocument ==
    addTimestampButtons(
        [c \in Containers |->
            IF c = 1 THEN Render(<<Stamp \o <<" ", "a">>>>)
            ELSE Render(<<<<"1", ":", "0", "0", ":", "0", "5", " ">>>>)])

InitClick ==
    /\ dom = ClickDocument
    /\ rendered = [c \in Containers |-> TextContent(dom[c])]
    /\ observers = 0
    /\ YTSObserver = FALSE
    /\ styles = 0
    /\ timers = <<>>
    /\ passEarly = FALSE
    /\ burstPasses = 0
    /\ lastOp = "pass"
    /\ parent \in Trees
    /\ iframes \in FrameLayouts
    /\ posted = <<>>
    /\ NoArg
    /\ NoImports

\* the click listener of the marker that is leaf j of container c
Click(c, j) ==
    /\ j \in Markers(dom[c])
    /\ Len(posted) < 2 * MaxClicks
    /\ LET iframe == findYouTubePlayer(parent, iframes, BlockOf(c))
       IN  IF iframe # NoPlayer
           THEN /\ iframes' = [iframes EXCEPT ![iframe] = EnableJsApi(@)]
                /\ posted' = posted \o Commands(iframe, dom[c][j].secs)
           ELSE UNCHANGED <<iframes, posted>>
    /\ lastOp' = "click"
    /\ UNCHANGED <<dom, rendered, observers, YTSObserver, styles, timers,
                   passEarly, burstPasses, parent, fnVars,
                   importVars>>

NextClick == \E c \in Containers : \E j \in 1..Len(dom[c]) : Click(c, j)

SpecClick == InitClick /\ [][NextClick]_vars

-----------------------------------------------------------------------------
(* parseTimestamp and formatTimestamp as functions, and the way of one      *)
(* transcript segment from its offset to the seek of the player.  arg is a  *)
(* literal of the grammar, built from its numbers, or a segment of a        *)
(* transcript, imported in Nested Blocks mode below a block that embeds the *)
(* player.                                                                  *)

PartSamples == {0, 1, 2, 10, 59, 100}
SecondSamples == {0, 3, 5, 59, 99}
Widths == {1, 2}

\* the literal digits:digits:dd or digits:dd of the numbers in parts, every
\* part but the last written with at least widths[k] digits
RECURSIVE LiteralOf(_, _)
LiteralOf(parts, widths) ==
    IF Len(parts) = 1 THEN PadStart(ToDigits(parts[1]), 2)
    ELSE PadStart(ToDigits(parts[1]), widths[1]) \o <<":">>
         \o LiteralOf(Tail(parts), Tail(widths))

LiteralArgs ==
    {[kind |-> "literal", parts |-> <<m, sec>>, text |-> LiteralOf(<<m, sec>>, <<w>>)] :
        m \in PartSamples, sec \in SecondSamples, w \in Widths}
    \cup
    {[kind |-> "literal", parts |-> <<h, m, sec>>,
      text |-> LiteralOf(<<h, m, sec>>, <<w1, w2>>)] :
        h \in PartSamples, m \in PartSamples, sec \in SecondSamples,
        w1 \in Widths, w2 \in Widths}

TimeSamples ==
    {h * 3600 + m * 60 + sec : h \in {0, 1, 10, 100}, m \in {0, 2, 59}, sec \in {0, 3, 59}}

SegmentTexts == { <<"a">>, <<>>, Stamp \o <<" ", "b">> }

SegmentArgs ==
    {[kind |-> "segment", offset |-> t * 1000 + r, text |-> w] :
        t \in TimeSamples, r \in {0, 999}, w \in SegmentTexts}

\* the string of the block insertTranscript creates for a segment in Nested
\* Blocks mode
NestedBlock(segment) == formatTimestamp(segment.offset) \o <<" ">> \o segment.text

InitParse ==
    /\ arg \in LiteralArgs \cup SegmentArgs
    /\ res = NoResult
    /\ dom = [c \in Containers |->
                 IF c # 1 THEN Render(<<<<"a">>>>)
                 ELSE IF arg.kind = "segment" THEN Render(<<NestedBlock(arg)>>)
                 ELSE Render(<<arg.text \o <<" ", "a">>>>)]
    /\ rendered = [c \in Containers |-> TextContent(dom[c])]
    /\ observers = 0
    /\ YTSObserver = FALSE
    /\ styles = 0
    /\ timers = <<>>
    /\ passEarly = FALSE
    /\ burstPasses = 0
    /\ lastOp = "init"
    /\ parent = [b \in Blocks |-> b - 1]
    /\ iframes = [slot \in Slots |-> IF slot = 1 THEN Embed ELSE NoFrame]
    /\ posted = <<>>
    /\ NoImports

\* formatTimestamp applied to the offset of the segment, or to the seconds
\* parseTimestamp gave for the literal
Format ==
    /\ \/ arg.kind = "segment" /\ res.stage = "none"
       \/ arg.kind = "literal" /\ res.stage = "parsed"
    /\ res' = IF arg.kind = "segment"
              THEN [stage |-> "formatted", text |-> formatTimestamp(arg.offset),
                    seconds |-> -1]
              ELSE [stage |-> "reformatted",
                    text |-> formatTimestamp(res.seconds * 1000),
                    seconds |-> -1]
    /\ lastOp' = "format"
    /\ UNCHANGED <<dom, rendered, observers, YTSObserver, styles, timers,
                   passEarly, burstPasses, playerVars, arg,
                   importVars>>

\* parseTimestamp applied to the literal, or to the text formatTimestamp gave
Parse ==
    /\ \/ arg.kind = "literal" /\ res.stage = "none"
       \/ res.stage \in {"formatted", "reformatted"}
    /\ res' = IF res.stage = "none"
              THEN [stage |-> "parsed", text |-> arg.text,
                    seconds |-> parseTimestamp(arg.text)]
              ELSE [stage |-> IF res.stage = "formatted" THEN "parsed" ELSE "reparsed",
                    text |-> res.text,
                    seconds |-> parseTimestamp(res.text)]
    /\ lastOp' = "parse"
    /\ UNCHANGED <<dom, rendered, observers, YTSObserver, styles, timers,
                   passEarly, burstPasses, playerVars, arg,
                   importVars>>

NextParse ==
    \/ Format
    \/ Parse
    \/ Pass
    \/ \E c \in Containers : \E j \in 1..Len(dom[c]) : Click(c, j)

SpecParse == InitParse /\ [][NextParse]_vars

-----------------------------------------------------------------------------
(* The command: importYoutubeTranscript runs up to its first await, and     *)
(* again from each promise that settles; invocations interleave at the      *)
(* awaits, with each other, with onunload and with the watcher's timers.    *)

\* where an invocation waits
InFlight == {"fetch", "insert"}

\* how an invocation has ended
Completed == {"noKey", "noFocus", "noUrl", "empty", "fetchError", "insertError",
              "inserted"}

\* a cleanup that finds no element to remove
LoaderLeft(ls) == ls

\* document.getElementById("yts-loading") and loader.remove(): the first
\* element with the id in document order goes, if there is one
RemoveLoader(ls) == IF ls = <<>> THEN ls ELSE Tail(ls)

\* the batch the observers get when the body gains or loses an indicator
LoaderRecords(before, after) ==
    IF Len(after) > Len(before) THEN <<MutationRecord("childList", 1, 0)>>
    ELSE IF Len(after) < Len(before) THEN <<MutationRecord("childList", 0, 1)>>
    ELSE <<>>

\* the body of the extension after onload: plain blocks, the watcher started
InitImport ==
    /\ dom = [c \in Containers |-> Render(<<<<"a">>>>)]
    /\ rendered = [c \in Containers |-> TextContent(dom[c])]
    /\ observers = 1
    /\ YTSObserver = TRUE
    /\ styles = 1
    /\ timers = <<>>
    /\ passEarly = FALSE
    /\ burstPasses = 0
    /\ lastOp = "start"
    /\ NoPlayers
    /\ NoArg
    /\ NoImports

\* the items of the setting insert_mode
InsertModes == {"Nested Blocks", "Single Block (Soft Line Breaks)", "Code Block"}

\* what fetch can bring: a rejection, a response that is not ok, a body
\* that is no JSON, an array of n segments, an object whose content is such
\* an array, or any other JSON value
Responses ==
    {[kind |-> "rejected", status |-> 0, n |-> 0],
     [kind |-> "invalid", status |-> 200, n |-> 0],
     [kind |-> "other", status |-> 200, n |-> 0]}
    \cup {[kind |-> "status", status |-> st, n |-> 0] : st \in {401, 403, 404, 429, 500}}
    \cup {[kind |-> k, status |-> 200, n |-> n] :
             k \in {"array", "content"}, n \in 0..MaxSegments}

\* fetchTranscript: the segments, or the message of the error it throws
fetchTranscript(response) ==
    LET thrown(message) == [error |-> message, segments |-> 0]
    IN  IF response.kind = "rejected" THEN thrown("Network error")
        ELSE IF response.kind = "status"
        THEN IF response.status \in {401, 403} THEN thrown("Invalid API key")
             ELSE IF response.status = 404 THEN thrown("Transcript not found")
             ELSE IF response.status = 429 THEN thrown("Rate limit exceeded")
             ELSE thrown("API request failed")
        ELSE IF response.kind = "invalid" THEN thrown("SyntaxError")
        ELSE IF response.kind \in {"array", "content"}
        THEN [error |-> "", segments |-> response.n]
        ELSE thrown("Unexpected API response format")

\* the createBlock calls of an insertTranscript that no call rejects
createBlockCalls(mode, segments) ==
    IF mode = "Nested Blocks" THEN 1 + segments
    ELSE IF mode \in InsertModes THEN 1
    ELSE 0

\* the guards that skip the check of the API key
EarlyReturnKeyUnchecked(apiKey, focusedBlockUid, youtubeResult) ==
    IF ~focusedBlockUid THEN "noFocus"
    ELSE IF ~youtubeResult THEN "noUrl"
    ELSE "fetch"

\* the guards of importYoutubeTranscript, in order
EarlyReturn(apiKey, focusedBlockUid, youtubeResult) ==
    IF ~apiKey THEN "noKey"
    ELSE IF ~focusedBlockUid THEN "noFocus"
    ELSE IF ~youtubeResult THEN "noUrl"
    ELSE "fetch"

\* the command is run: the three early returns, or the indicator is appended
\* to the body, fetchTranscript calls fetch and the invocation waits for it
Invoke(i, apiKey, focusedBlockUid, youtubeResult, insertMode) ==
    /\ pc[i] \notin InFlight
    /\ Len(timers) + observers <= MaxTimers
    /\ pc' = [pc EXCEPT ![i] = EarlyReturn(apiKey, focusedBlockUid, youtubeResult)]
    /\ IF pc'[i] = "fetch"
       THEN /\ loaders' = Append(loaders, i)
            /\ job' = [job EXCEPT ![i] = [insertMode |-> insertMode, segments |-> 0]]
            /\ api' = [api EXCEPT ![i] = [fetch |-> 1, createBlock |-> 0]]
       ELSE /\ loaders' = loaders
            /\ job' = [job EXCEPT ![i] = NoJob]
            /\ api' = [api EXCEPT ![i] = NoCalls]
    /\ Notified(timers, observers, ShouldUpdate(LoaderRecords(loaders, loaders')),
                burstPasses)
    /\ lastOp' = "import"
    /\ passEarly' = FALSE
    /\ UNCHANGED <<dom, rendered, observers, YTSObserver, styles, playerVars,
                   fnVars>>

\* fetchTranscript settles: with segments insertTranscript is called, makes
\* its first createBlock call and the invocation waits for it; an empty
\* transcript returns from the try block and an error is caught, both
\* through the finally block
FetchSettles(i, response) ==
    /\ pc[i] = "fetch"
    /\ LET segments == fetchTranscript(response)
       IN  IF segments.error = "" /\ segments.segments > 0
           THEN /\ pc' = [pc EXCEPT ![i] = "insert"]
                /\ loaders' = loaders
                /\ job' = [job EXCEPT ![i].segments = segments.segments]
                /\ api' = [api EXCEPT ![i].createBlock =
                              Min(1, createBlockCalls(job[i].insertMode,
                                                      segments.segments))]
           ELSE /\ pc' = [pc EXCEPT ![i] = IF segments.error = "" THEN "empty"
                                            ELSE "fetchError"]
                /\ loaders' = RemoveLoader(loaders)
                /\ job' = [job EXCEPT ![i] = NoJob]
                /\ api' = api
    /\ Notified(timers, observers, ShouldUpdate(LoaderRecords(loaders, loaders')),
                burstPasses)
    /\ lastOp' = "fetched"
    /\ passEarly' = FALSE
    /\ UNCHANGED <<dom, rendered, observers, YTSObserver, styles, playerVars,
                   fnVars>>

\* insertTranscript settles: every createBlock call was fulfilled
\* (rejectedAt = 0), or the call number rejectedAt was rejected and no call
\* followed it; the finally block runs
InsertSettles(i, rejectedAt) ==
    /\ pc[i] = "insert"
    /\ rejectedAt <= createBlockCalls(job[i].insertMode, job[i].segments)
    /\ pc' = [pc EXCEPT ![i] = IF rejectedAt = 0 THEN "inserted" ELSE "insertError"]
    /\ api' = [api EXCEPT ![i].createBlock =
                  IF rejectedAt = 0
                  THEN createBlockCalls(job[i].insertMode, job[i].segments)
                  ELSE rejectedAt]
    /\ job' = [job EXCEPT ![i] = NoJob]
    /\ loaders' = RemoveLoader(loaders)
    /\ Notified(timers, observers, ShouldUpdate(LoaderRecords(loaders, loaders')),
                burstPasses)
    /\ lastOp' = "inserted"
    /\ passEarly' = FALSE
    /\ UNCHANGED <<dom, rendered, observers, YTSObserver, styles, playerVars,
                   fnVars>>

\* onunload: the watcher is cleaned up, then the first indicator is removed;
\* the invocations in flight go on
Unload ==
    /\ cleanupTimestampObserver
    /\ loaders' = RemoveLoader(loaders)
    /\ lastOp' = "unload"
    /\ UNCHANGED <<rendered, playerVars, fnVars, pc, job, api>>

\* the responses of the interleaved invocations: one segment, none, an error
ImportResponses ==
    {r \in Responses : \/ r.kind = "array" /\ r.n <= 1
                       \/ r.kind = "status" /\ r.status = 404}

NextImport ==
    \/ \E i \in Invocations : \E apiKey, focusedBlockUid, youtubeResult \in BOOLEAN :
           Invoke(i, apiKey, focusedBlockUid, youtubeResult, "Nested Blocks")
    \/ \E i \in Invocations : \E response \in ImportResponses :
           FetchSettles(i, response)
    \/ \E i \in Invocations : \E rejectedAt \in 0..1 : InsertSettles(i, rejectedAt)
    \/ Unload
    \/ Fire
    \/ Advance(DebounceDelay)

SpecImport == InitImport /\ [][NextImport]_vars

\* one invocation at a time, over every setting, response and rejection
NextCommand ==
    \/ \E apiKey, focusedBlockUid, youtubeResult \in BOOLEAN :
           \E insertMode \in InsertModes :
               Invoke(1, apiKey, focusedBlockUid, youtubeResult, insertMode)
    \/ \E response \in Responses : FetchSettles(1, response)
    \/ \E rejectedAt \in 0..(1 + MaxSegments) : InsertSettles(1, rejectedAt)
    \/ Fire
    \/ Advance(DebounceDelay)

SpecCommand == InitImport /\ [][NextCommand]_vars

-----------------------------------------------------------------------------
(* findYouTubeUrl over the graph: the string of a block is a sequence of    *)
(* pieces (a scheme, a host, a path, a word, a delimiter), the hierarchy is *)
(* parent, and :block/parents of a block is the list of its ancestors in    *)
(* the order the pull gives them.  The samples are in lower case, so the i  *)
(* flag of the patterns has nothing to do.                                  *)

Schemes == {"https://", "http://"}

\* the pieces made of characters the class [^\s\])\[<>] leaves out
UrlStops == {" ", "[", "]", "](", ")", "<", ">"}

\* the pieces made of characters of the class [)\]}>.,;:!?]
TrailingPunctuation == {")", "]", "}}", ">", ".", ",", ";", ":", "!", "?"}

\* a piece of [\w-]+
IsWord(piece) ==
    piece \notin Schemes \cup UrlStops \cup TrailingPunctuation
                 \cup {"www.", "youtube.com", "youtu.be", "vimeo.com", "/watch?",
                       "/embed/", "/shorts/", "/", "v=", "{{[[video]]: "}

\* the position behind the run of pieces of [^\s\])\[<>]* that starts at i
RECURSIVE RunEnd(_, _)
RunEnd(text, i) ==
    IF i <= Len(text) /\ text[i] \notin UrlStops THEN RunEnd(text, i + 1) ELSE i

\* the piece of text at position i, "" behind the end
At(text, i) == IF i >= 1 /\ i <= Len(text) THEN text[i] ELSE ""

\* https?:\/\/(?:www\.)?youtube\.com, then the path: the position behind
\* the match of the pattern that starts at i, 0 if there is none
YouTubeComAt(text, i, path) ==
    LET host == IF At(text, i + 1) = "www." THEN i + 2 ELSE i + 1
        run  == RunEnd(text, host + 2)
    IN  IF ~(At(text, i) \in Schemes /\ At(text, host) = "youtube.com"
                /\ At(text, host + 1) = path)
        THEN 0
        ELSE IF path = "/watch?"
        THEN IF \E k \in (host + 2)..(run - 2) :
                    text[k] = "v=" /\ IsWord(text[k + 1])
             THEN run ELSE 0
        ELSE IF IsWord(At(text, host + 2)) THEN RunEnd(text, host + 3) ELSE 0

\* https?:\/\/youtu\.be\/[\w-]+ and the run behind it
YoutuBeAt(text, i) ==
    IF /\ At(text, i) \in Schemes
       /\ At(text, i + 1) = "youtu.be"
       /\ At(text, i + 2) = "/"
       /\ IsWord(At(text, i + 3))
    THEN RunEnd(text, i + 4)
    ELSE 0

\* the four patterns, in the order of the array
PatternAt(text, i, pattern) ==
    IF pattern = 1 THEN YouTubeComAt(text, i, "/watch?")
    ELSE IF pattern = 2 THEN YouTubeComAt(text, i, "/embed/")
    ELSE IF pattern = 3 THEN YouTubeComAt(text, i, "/shorts/")
    ELSE YoutuBeAt(text, i)

\* text.match(pattern)[0]: the leftmost match of one pattern, <<>> if none
MatchPattern(text, pattern) ==
    LET starts == {i \in 1..Len(text) : PatternAt(text, i, pattern) # 0}
    IN  IF starts = {} THEN <<>>
        ELSE LET i == CHOOSE x \in starts : \A y \in starts : x <= y
             IN  Sub(text, i, PatternAt(text, i, pattern) - 1)

\* url.replace(/[)\]}>.,;:!?]+$/, '')
RECURSIVE cleanYouTubeUrl(_)
cleanYouTubeUrl(url) ==
    IF url # <<>> /\ url[Len(url)] \in TrailingPunctuation
    THEN cleanYouTubeUrl(Sub(url, 1, Len(url) - 1))
    ELSE url

isYouTubeUrl(url) ==
    Includes(url, <<"youtube.com">>) \/ Includes(url, <<"youtu.be">>)

\* the least position >= from of a piece of the set, 0 if none
RECURSIVE Find(_, _, _)
Find(text, pieces, from) ==
    IF from > Len(text) THEN 0
    ELSE IF text[from] \in pieces THEN from
    ELSE Find(text, pieces, from + 1)

\* the exec loop over the Markdown links [text](url) from position from on:
\* the url of the first link that is a YouTube URL, cleaned; <<>> if none
RECURSIVE MarkdownLink(_, _)
MarkdownLink(text, from) ==
    LET open  == Find(text, {"["}, from)
        close == Find(text, {"]", "]("}, open + 1)
        paren == Find(text, {")"}, close + 1)
        url   == Sub(text, close + 1, paren - 1)
    IN  IF open = 0 THEN <<>>
        ELSE IF /\ close # 0
                /\ text[close] = "]("
                /\ At(text, close + 1) \in Schemes
                /\ paren > close + 2
        THEN IF isYouTubeUrl(url) THEN cleanYouTubeUrl(url)
             ELSE MarkdownLink(text, paren + 1)
        ELSE MarkdownLink(text, open + 1)

\* no URL: null
NoUrl == <<>>

\* extractYouTubeUrl: the Markdown links first, then the patterns in order
extractYouTubeUrl(text) ==
    IF text = <<>> THEN NoUrl
    ELSE IF MarkdownLink(text, 1) # <<>> THEN MarkdownLink(text, 1)
    ELSE LET found == {pattern \in 1..4 : MatchPattern(text, pattern) # <<>>}
         IN  IF found = {} THEN NoUrl
             ELSE cleanYouTubeUrl(
                    MatchPattern(text, CHOOSE x \in found : \A y \in found : x <= y))

\* the ancestors of a block from the closest to the furthest
RECURSIVE ClosestFirst(_, _)
ClosestFirst(p, b) == IF p[b] = 0 THEN <<>> ELSE <<p[b]>> \o ClosestFirst(p, p[b])

\* getBlockInfo: :block/string and :block/parents of a block of the graph
getBlockInfo(p, strings, order, uid) ==
    [string  |-> strings[uid],
     parents |-> IF order = "closest first" THEN ClosestFirst(p, uid)
                 ELSE Reverse(ClosestFirst(p, uid))]

\* null
NoBlock == [url |-> NoUrl, blockUid |-> 0]

\* the loop over the list as it stands
RECURSIVE FirstWithUrl(_, _)
FirstWithUrl(strings, parents) ==
    IF parents = <<>> THEN NoBlock
    ELSE LET parentUid == Head(parents)
             parentUrl == extractYouTubeUrl(strings[parentUid])
         IN  IF parentUrl # NoUrl THEN [url |-> parentUrl, blockUid |-> parentUid]
             ELSE FirstWithUrl(strings, Tail(parents))

\* findYouTubeUrl: the block itself, then parents.reverse() in order
findYouTubeUrl(p, strings, order, blockUid) ==
    LET blockInfo == getBlockInfo(p, strings, order, blockUid)
        url       == extractYouTubeUrl(blockInfo.string)
    IN  IF url # NoUrl THEN [url |-> url, blockUid |-> blockUid]
        ELSE FirstWithUrl(strings, Reverse(blockInfo.parents))

\* the strings of the blocks: plain text, nothing, an embedded video, a
\* link at the end of a sentence, a Markdown link, a video of another site
BlockStrings ==
    { <<"a">>,
      <<"{{[[video]]: ", "https://", "www.", "youtube.com", "/watch?", "v=", "b", "}}">>,
      <<"see", " ", "https://", "youtu.be", "/", "c", ".">>,
      <<"[", "a", "](", "https://", "youtu.be", "/", "d", ")">>,
      <<"https://", "vimeo.com", "/", "e">> }

UrlArgs ==
    {[kind |-> "block", blockUid |-> b, strings |-> g, order |-> o] :
        b \in Blocks, g \in [Blocks -> BlockStrings],
        o \in {"closest first", "furthest first"}}

InitUrl ==
    /\ arg \in UrlArgs
    /\ res = NoResult
    /\ dom = [c \in Containers |-> Render(<<<<"a">>>>)]
    /\ rendered = [c \in Containers |-> TextContent(dom[c])]
    /\ observers = 0
    /\ YTSObserver = FALSE
    /\ styles = 0
    /\ timers = <<>>
    /\ passEarly = FALSE
    /\ burstPasses = 0
    /\ lastOp = "init"
    /\ parent \in Trees
    /\ iframes = [slot \in Slots |-> NoFrame]
    /\ posted = <<>>
    /\ NoImports

\* findYouTubeUrl applied to the focused block
FindUrl ==
    /\ arg.kind = "block"
    /\ res.stage = "none"
    /\ res' = [stage |-> "found",
               found |-> findYouTubeUrl(parent, arg.strings, arg.order, arg.blockUid)]
    /\ lastOp' = "find"
    /\ UNCHANGED <<dom, rendered, observers, YTSObserver, styles, timers,
                   passEarly, burstPasses, playerVars, arg, importVars>>

NextUrl == FindUrl

SpecUrl == InitUrl /\ [][NextUrl]_vars

-----------------------------------------------------------------------------
(* Claims *)

Started == YTSObserver /\ observers = 1
AfterPass == lastOp \in {"fire", "start", "pass"}
NoMarkers == \A c \in Containers : Markers(dom[c]) = {}
SomeMarker == \E c \in Containers : Markers(dom[c]) # {}

\* C1: while the watcher is started (one observer, held by the handle), the
\* notifications of one burst cause exactly one Pass, and no Pass runs before
\* the debounce delay has elapsed since the latest notification.
C1_DebounceCoalescing == Started => (burstPasses <= 1 /\ ~passEarly)

\* C2: stop() cancels the pending timer: no Pass runs while the watcher is
\* stopped (window.YTSObserver unset).
C2_NoPassWhileStopped == (lastOp = "fire") => YTSObserver

\* C3: at most one observer is connected at any instant, and a connected
\* observer is the one the handle holds, so that stop() can disconnect it.
C3_AtMostOneObserver == observers <= 1 /\ (observers = 1 => YTSObserver)

\* C4: at most one debounce timer is pending in every reachable state; stated
\* for the states with at most one observer, where every timer was armed by
\* one and the same observer.
C4_AtMostOneTimer == (observers <= 1) => (Len(timers) <= 1)

\* C5: no text node lies inside more than one marker: no marker is nested in
\* another, no occurrence is wrapped twice.
C5_NoDoubleWrapping ==
    \A c \in Containers : \A j \in 1..Len(dom[c]) : dom[c][j].m <= 1

\* a Pass fired by a timer ran over a document that held markers and created
\* none: the observer that is connected was told of no added node
C5_Witness ==
    /\ lastOp = "fire"
    /\ observers > 0
    /\ timers = <<>>
    /\ SomeMarker

\* the number of tokens the pattern recognizes in text whose literal is lit
NumMatches(text, lit) ==
    Cardinality({k \in 1..Len(AllMatches(text, 1)) : AllMatches(text, 1)[k] = lit})

MarkersOf(content, lit) == {j \in Markers(content) : content[j].text = lit}

\* C6: a second Pass directly after a Pass changes nothing: the document a
\* Pass leaves is a fixed point of the Pass.
C6_PassIdempotent == AfterPass => (addTimestampButtons(dom) = dom)

\* C7: after a single Pass every recognized occurrence of a literal has a
\* marker of its own: a container holds as many markers of a literal as the
\* pattern recognizes tokens of it, each with the literal's seconds.
C7_RepeatedLiteralWrapped ==
    AfterPass =>
        \A c \in Containers :
            \A k \in 1..Len(timestampMatches(rendered[c])) :
                LET lit == timestampMatches(rendered[c])[k]
                IN  /\ Cardinality(MarkersOf(dom[c], lit)) = NumMatches(rendered[c], lit)
                    /\ \A j \in MarkersOf(dom[c], lit) :
                           dom[c][j].secs = parseTimestamp(lit)

\* C8: directly after stop() no observer is connected and the document holds
\* no marker.
C8_StopPostcondition == (lastOp = "stop") => (observers = 0 /\ NoMarkers)

\* C9: stop() on a stopped watcher changes neither the watcher nor the
\* document.
C9_StopIdempotent ==
    [][(~YTSObserver /\ Stop) => UNCHANGED <<dom, observers, YTSObserver, styles, timers>>]_vars

\* C10: the text content of every container is the text the host rendered,
\* whatever Passes and stops have run since.
C10_ContentPreserved ==
    \A c \in Containers : TextContent(dom[c]) = rendered[c]

\* a stop() has unwrapped the markers of Passes that had split one rendered
\* text node into four
C10_Witness ==
    /\ lastOp = "stop"
    /\ NoMarkers
    /\ \E c \in Containers : Len(dom[c]) = 4

\* every token the pattern recognizes in the text of the container has a
\* marker: the container holds at least as many markers of each literal as
\* the pattern recognizes tokens of it
AllWrapped(content) ==
    \A k \in 1..Len(timestampMatches(TextContent(content))) :
        LET lit == timestampMatches(TextContent(content))[k]
        IN  Cardinality(MarkersOf(content, lit))
                >= NumMatches(TextContent(content), lit)

\* C11: eventual augmentation.  A started watcher with no timer pending takes
\* no step until the host mutates the document again, so if the host has
\* stopped mutating, such a state is the state the system stays in: every
\* recognized token of every container is wrapped in it.
C11_QuiescentAugmented ==
    (Started /\ timers = <<>>) => \A c \in Containers : AllWrapped(dom[c])

\* the seconds the spec gives a literal whose numbers are parts
ValueOf(parts) ==
    IF Len(parts) = 3
    THEN parts[1] * 3600 + parts[2] * 60 + parts[3]
    ELSE parts[1] * 60 + parts[2]

\* C12: parseTimestamp maps the literal h:m:s to h*3600 + m*60 + s and the
\* literal m:s to m*60 + s, whatever the number of digits of h and m; it gives
\* 3723 for 1:02:03, 123 for 02:03 and 0 for 00:00, and never a negative
\* number.
C12_ParseValue ==
    (arg.kind = "literal" /\ res.stage = "parsed") =>
        /\ res.seconds = ValueOf(arg.parts)
        /\ res.seconds >= 0
        /\ arg.text = <<"1", ":", "0", "2", ":", "0", "3">> => res.seconds = 3723
        /\ arg.text = <<"0", "2", ":", "0", "3">> => res.seconds = 123
        /\ arg.text = <<"0", "0", ":", "0", "0">> => res.seconds = 0

\* parseTimestamp has been applied to the literal 1:02:03
C12_Witness ==
    /\ arg.kind = "literal"
    /\ arg.text = <<"1", ":", "0", "2", ":", "0", "3">>
    /\ res.stage = "parsed"
    /\ res.seconds = 3723

\* C13: round trip.  Parsing the text formatTimestamp gives for ms
\* milliseconds yields floor(ms / 1000); and for a literal L, formatting
\* parseTimestamp(L) seconds and parsing the result yields parseTimestamp(L)
\* again.
C13_RoundTrip ==
    /\ (arg.kind = "segment" /\ res.stage = "parsed") =>
           res.seconds = arg.offset \div 1000
    /\ (arg.kind = "literal" /\ res.stage = "reparsed") =>
           res.seconds = ValueOf(arg.parts)

\* an offset of an hour or more that is no whole second has gone through
\* formatTimestamp and parseTimestamp
C13_Witness ==
    /\ arg.kind = "segment"
    /\ arg.offset >= 3600000
    /\ arg.offset % 1000 # 0
    /\ res.stage = "parsed"
    /\ Len(res.text) = 8

\* the embedded players of the document: the slots whose iframe has a
\* YouTube host in its src
Embeds ==
    {slot \in Slots :
        \E k \in 1..Len(iframes[slot]) :
            iframes[slot][k] \in {"youtube.com", "youtu.be"}}

\* some proper ancestor container of b holds an embedded player
AncestorYields(b) ==
    \E a \in Ancestors(parent, b) : Embeds \cap Subtree(parent, a) # {}

\* C14: for every block container, findYouTubePlayer gives null iff the
\* document holds no embedded player; what it gives otherwise is an embedded
\* player; and when no ancestor of the container holds one, it gives the first
\* embedded player of the document.
C14_LocateTotal ==
    \A b \in Blocks :
        LET iframe == findYouTubePlayer(parent, iframes, b)
        IN  /\ (iframe = NoPlayer) <=> (Embeds = {})
            /\ iframe # NoPlayer => iframe \in Embeds
            /\ (Embeds # {} /\ ~AncestorYields(b)) =>
                   \A slot \in Embeds : iframe <= slot

\* a click in a block that has a parent container without a player has
\* reached the player outside the blocks, though an iframe that is no embedded
\* player comes first in the document
C14_Witness ==
    /\ lastOp = "click"
    /\ posted # <<>>
    /\ posted[1].to = Outside
    /\ parent[BlockOf(1)] # 0
    /\ \E slot \in Blocks : iframes[slot] # NoFrame

\* the number of times the src holds the flag
FlagCount(src) == Cardinality({k \in 1..Len(src) : OccursAt(src, Flag, k)})

HasQuery(src) == \E k \in 1..Len(src) : src[k] = "?"

\* C15: a seek leaves the src of the player with the flag exactly once: a src
\* without the flag gets it appended, behind "?" if the src has no query
\* string and behind "&" if it has one, and a src with the flag stays as it
\* is; the src of no other iframe changes.
C15_FlagOnce ==
    [][(lastOp' = "click" /\ posted' # posted) =>
          LET iframe == posted'[Len(posted')].to
              src    == iframes[iframe]
          IN  /\ FlagCount(iframes'[iframe]) = 1
              /\ (FlagCount(src) = 0 /\ ~HasQuery(src)) =>
                     iframes'[iframe] = src \o <<"?">> \o Flag
              /\ (FlagCount(src) = 0 /\ HasQuery(src)) =>
                     iframes'[iframe] = src \o <<"&">> \o Flag
              /\ FlagCount(src) > 0 => iframes'[iframe] = src
              /\ \A slot \in Slots \ {iframe} : iframes'[slot] = iframes[slot]]_vars

\* two seeks have gone to one player whose src had a query string and no
\* flag: the flag stands behind "&", once
C15_Witness ==
    /\ lastOp = "click"
    /\ Len(posted) = 4
    /\ posted[1].to = posted[3].to
    /\ LET src == iframes[posted[1].to]
       IN  /\ FlagCount(src) = 1
           /\ \E k \in 1..Len(src) : src[k] = "&"

\* C16: a click on a marker in a document without an embedded player posts no
\* message and changes no src, nothing of the document and nothing of the
\* watcher.
C16_ClickWithoutPlayer ==
    [][(lastOp' = "click" /\ Embeds = {}) =>
          UNCHANGED <<posted, iframes, parent, dom, rendered, observers,
                      YTSObserver, styles, timers>>]_vars

\* a marker was clicked in a document whose only iframes are no embedded
\* players
C16_Witness ==
    /\ lastOp = "click"
    /\ Embeds = {}
    /\ \E slot \in Slots : iframes[slot] # NoFrame
    /\ posted = <<>>

\* C17: a block that insertTranscript writes for a segment in Nested Blocks
\* mode, formatTimestamp(offset), a space and the text of the segment, gets
\* from a Pass a marker over its first characters whose text is
\* formatTimestamp(offset) and whose seconds are floor(offset / 1000); a click
\* on that marker posts seekTo with these seconds, then playVideo, to the
\* player findYouTubePlayer locates from the block.
C17_NestedBlockSeeks ==
    [][arg.kind = "segment" =>
          /\ Pass =>
                dom'[1][1] = [text |-> formatTimestamp(arg.offset), m |-> 1,
                              secs |-> arg.offset \div 1000]
          /\ Click(1, 1) =>
                /\ dom[1][1].text = formatTimestamp(arg.offset)
                /\ Len(posted') = Len(posted) + 2
                /\ LET seekTo == posted'[Len(posted) + 1]
                   IN  /\ seekTo.func = "seekTo"
                       /\ seekTo.args = <<arg.offset \div 1000, TRUE>>
                       /\ seekTo.to = 1
                /\ posted'[Len(posted) + 2].func = "playVideo"]_vars

\* the marker of a segment that begins more than an hour into the video has
\* been clicked and seekTo went to the player in the block above
C17_Witness ==
    /\ arg.kind = "segment"
    /\ arg.offset >= 3600000
    /\ lastOp = "click"
    /\ Len(posted) = 2
    /\ posted[1].func = "seekTo"
    /\ posted[1].args[1] = arg.offset \div 1000
    /\ dom[1][1].m = 1

\* C18: start() on a stopped watcher installs the style, runs one Pass and
\* then registers the observer: the insertions of that Pass are reported to
\* no observer, and when start() returns one observer is connected, held by
\* the handle, and no timer is pending.
C18_StartFromStopped ==
    [][(~YTSObserver /\ Start) =>
          /\ styles' = styles + 1
          /\ dom' = addTimestampButtons(dom)
          /\ YTSObserver'
          /\ observers' = 1
          /\ timers' = <<>>]_vars

\* C19: the document holds exactly one style element of the extension while
\* the watcher is started and none while it is stopped, whatever start() and
\* stop() calls have been made.
C19_StyleFollowsLifecycle == styles = (IF YTSObserver THEN 1 ELSE 0)

\* C20: when the only pending timer of a started watcher fires, one Pass runs
\* and the watcher is back at rest: no timer is pending after the Pass,
\* whether or not the Pass wrapped timestamps.
C20_OnePassPerBurst ==
    [][(Started /\ Len(timers) = 1 /\ Fire) => timers' = <<>>]_vars

\* C21: quiescence.  When the host has stopped mutating the document, so that
\* the only steps are timers firing and time passing, then from some point on
\* no timer is pending: the insertions of the Passes, which the observer
\* sees, arm only finitely many timers.
C21_Quiescence == <>[](timers = <<>>)

\* the watcher at rest after a Pass run by a timer, with two markers of one
\* literal in a container: the second was wrapped by a Pass that a timer ran
C21_Witness ==
    /\ Started
    /\ lastOp = "fire"
    /\ timers = <<>>
    /\ \E c \in Containers : Cardinality(MarkersOf(dom[c], Stamp)) = 2

\* C22: mutation filter.  A batch of records with added nodes or with a
\* character-data change arms a timer in every connected observer; a batch of
\* removals only arms none and leaves the watcher as it is.
C22_MutationFilter ==
    [][/\ (\E c \in Containers : HostRemove(c)) =>
             UNCHANGED <<timers, observers, YTSObserver, styles, burstPasses>>
       /\ (\/ \E c \in Containers, r \in HostRenderings : HostRender(c, r)
           \/ \E c \in Containers, data \in HostData : HostCharData(c, data)) =>
             timers' = timers \o [k \in 1..observers |-> DebounceDelay]]_vars

\* the host removed the nodes of a block under a started watcher with no
\* timer pending, and none is pending after it
C22_Witness ==
    /\ Started
    /\ lastOp = "remove"
    /\ timers = <<>>
    /\ \E c \in Containers : dom[c] = <<>>

\* the spans <<first, behind>> of the capture group of every match of the
\* exec loop over text, in order
RECURSIVE MatchSpans(_, _)
MatchSpans(text, from) ==
    LET m == Exec(text, from)
    IN  IF m = NoMatch THEN <<>>
        ELSE <<<<m.gs, m.ge>>>> \o MatchSpans(text, m.end)

\* the position in the text content of the first character of leaf j
RECURSIVE LeafStart(_, _)
LeafStart(content, j) ==
    IF j = 1 THEN 1 ELSE LeafStart(content, j - 1) + Len(content[j - 1].text)

\* the spans of the recognized tokens of the container
TokenSpans(content) ==
    {MatchSpans(TextContent(content), 1)[k] :
        k \in 1..Len(MatchSpans(TextContent(content), 1))}

\* the spans the markers of the container cover
MarkerSpans(content) ==
    {<<LeafStart(content, j), LeafStart(content, j) + Len(content[j].text)>> :
        j \in Markers(content)}

\* the recognized tokens of the container that no marker wraps
UnwrappedTokens(content) == TokenSpans(content) \ MarkerSpans(content)

\* C23: frame of a Pass.  A Pass keeps every marker that exists, at its place
\* and with its text and seconds, and leaves every container unchanged in
\* which no recognized token is unwrapped.
C23_PassFrame ==
    [][Pass =>
          \A c \in Containers :
              /\ \A j \in Markers(dom[c]) :
                     \E i \in Markers(dom'[c]) :
                         /\ dom'[c][i] = dom[c][j]
                         /\ LeafStart(dom'[c], i) = LeafStart(dom[c], j)
              /\ UnwrappedTokens(dom[c]) = {} => dom'[c] = dom[c]]_vars

\* the nearest proper ancestor container of b that holds an embedded player
NearestYielding(b) ==
    CHOOSE a \in Ancestors(parent, b) :
        /\ Embeds \cap Subtree(parent, a) # {}
        /\ \A x \in Ancestors(parent, b) :
               Embeds \cap Subtree(parent, x) # {} => x <= a

\* C24: nearest ancestor first.  When a proper ancestor container of a block
\* holds an embedded player, findYouTubePlayer gives an embedded player inside
\* the nearest such ancestor, not one that only a more distant ancestor or
\* the search of the whole document reaches.
C24_NearestAncestor ==
    \A b \in Blocks :
        AncestorYields(b) =>
            findYouTubePlayer(parent, iframes, b)
                \in Embeds \cap Subtree(parent, NearestYielding(b))

\* a click in the last block has reached the player in its parent's content,
\* though the grandparent holds a player too, earlier in the document
C24_Witness ==
    /\ lastOp = "click"
    /\ posted # <<>>
    /\ posted[1].args[1] = 3605
    /\ parent[BlockOf(2)] # 0
    /\ posted[1].to = parent[BlockOf(2)]
    /\ parent[parent[BlockOf(2)]] \in Embeds

\* C25 as stated: the ancestor search gives no embedded player that lies
\* inside the subtree of the block the search started from.
C25_SiblingOnly ==
    \A b \in Blocks : Climb(parent, iframes, b) \notin Subtree(parent, b)

\* C25 as the code has it: the ancestor search examines the whole subtree of
\* each ancestor container, the starting block's own subtree included.  It
\* gives the first embedded player, in document order, inside the nearest
\* ancestor that holds one; that player lies inside the starting block's
\* subtree when the subtree holds one and none precedes it in that ancestor.
C25_WholeSubtree ==
    \A b \in Blocks :
        AncestorYields(b) =>
            LET inside == Embeds \cap Subtree(parent, NearestYielding(b))
                iframe == Climb(parent, iframes, b)
            IN  /\ iframe \in inside
                /\ \A slot \in inside : iframe <= slot
                /\ (/\ Embeds \cap Subtree(parent, b) # {}
                    /\ \A slot \in inside : slot >= b) =>
                       iframe \in Subtree(parent, b)

\* a click in a block with a parent has reached a player inside the block's
\* own subtree
C25_Witness ==
    /\ lastOp = "click"
    /\ Len(posted) = 2
    /\ posted[1].args[1] = 5
    /\ parent[BlockOf(1)] # 0
    /\ posted[1].to \in Subtree(parent, BlockOf(1))

\* C26: every click that finds a player posts exactly two messages to the
\* player's window, after the messages posted before: first the command
\* seekTo with the marker's seconds and true, then the command playVideo
\* without arguments, each an envelope of event "command", func and args,
\* addressed to any origin.
C26_SeekCommands ==
    [][\A c \in Containers : \A j \in 1..Len(dom[c]) :
          (Click(c, j) /\ findYouTubePlayer(parent, iframes, BlockOf(c)) # NoPlayer) =>
              LET iframe == findYouTubePlayer(parent, iframes, BlockOf(c))
                  n == Len(posted)
              IN  /\ Len(posted') = n + 2
                  /\ SubSeq(posted', 1, n) = posted
                  /\ posted'[n + 1] =
                        [to |-> iframe, targetOrigin |-> "*", event |-> "command",
                         func |-> "seekTo", args |-> <<dom[c][j].secs, TRUE>>]
                  /\ posted'[n + 2] =
                        [to |-> iframe, targetOrigin |-> "*", event |-> "command",
                         func |-> "playVideo", args |-> <<>>]]_vars

\* two clicks have sought, the second to 1:00:05
C26_Witness ==
    /\ lastOp = "click"
    /\ Len(posted) = 4
    /\ posted[3].func = "seekTo"
    /\ posted[3].args = <<3605, TRUE>>
    /\ posted[4].func = "playVideo"
    /\ posted[4].targetOrigin = "*"

\* C27: token recognition at the end of the text.  A literal m:ss that ends
\* the text of a container, at the start of the text or behind a whitespace
\* character, is a recognized token, as it is when a space follows it.
C27_EndOfTextRecognized ==
    \A c \in Containers :
        LET text == TextContent(dom[c])
            n == Len(text)
        IN  (/\ n >= Len(Stamp)
             /\ Sub(text, n - Len(Stamp) + 1, n) = Stamp
             /\ (n = Len(Stamp) \/ IsSpace(text[n - Len(Stamp)]))) =>
                <<n - Len(Stamp) + 1, n + 1>> \in TokenSpans(dom[c])

\* C28: markers wrap only recognized tokens.  Every marker of a container
\* covers the span of a token that the pattern recognizes in the container's
\* text.
C28_MarkersWrapTokens ==
    \A c \in Containers : MarkerSpans(dom[c]) \subseteq TokenSpans(dom[c])

\* C29: the click listener of a marker.  The seconds every marker carries
\* are parseTimestamp of the text it shows; a click on a marker starts the
\* search for the player at the container the marker was created in, and
\* the seekTo it posts carries parseTimestamp of the marker's text.
C29_MarkerClosure ==
    [][/\ \A c \in Containers : \A j \in Markers(dom[c]) :
              dom[c][j].secs = parseTimestamp(dom[c][j].text)
       /\ \A c \in Containers : \A j \in 1..Len(dom[c]) :
              Click(c, j) =>
                  LET iframe == findYouTubePlayer(parent, iframes, BlockOf(c))
                      seekTo == posted'[Len(posted) + 1]
                  IN  IF iframe = NoPlayer THEN posted' = posted
                      ELSE /\ seekTo.to = iframe
                           /\ seekTo.args[1] = parseTimestamp(dom[c][j].text)]_vars

\* the marker 1:00:05 of the last block has been clicked: the seekTo went,
\* with 3605 seconds, to the player found from that block, and the search
\* from the other block with markers finds another player
C29_Witness ==
    /\ lastOp = "click"
    /\ Len(posted) = 2
    /\ posted[1].args[1] = 3605
    /\ posted[1].to = findYouTubePlayer(parent, iframes, BlockOf(2))
    /\ findYouTubePlayer(parent, iframes, BlockOf(1)) \notin {NoPlayer, posted[1].to}

\* C30: loading indicator cleanup.  Whenever no invocation of the command is
\* waiting for fetchTranscript or insertTranscript, the document holds no
\* element with id yts-loading.
C30_LoaderCleanup ==
    (\A i \in Invocations : pc[i] \notin InFlight) => loaders = <<>>

\* two invocations ran side by side and the extension was unloaded: one
\* ended with an error of fetchTranscript, the other inserted its transcript
\* last, and nothing is left
C30_Witness ==
    /\ lastOp = "inserted"
    /\ ~YTSObserver
    /\ loaders = <<>>
    /\ \E i, j \in Invocations : pc[i] = "fetchError" /\ pc[j] = "inserted"

\* C31: blocks are created only on success.  A run of the command calls
\* fetch only with an API key, a focused block and a YouTube URL found;
\* createBlock is called only after its fetchTranscript resolved with at
\* least one segment.  A run that ended without a key has called neither,
\* and a run that ended without focus, without URL, with an error of
\* fetchTranscript or with an empty transcript has called no createBlock.
C31_BlocksOnlyOnSuccess ==
    [][\A i \in Invocations :
          /\ \A apiKey, focusedBlockUid, youtubeResult \in BOOLEAN :
                 \A insertMode \in InsertModes :
                     Invoke(i, apiKey, focusedBlockUid, youtubeResult, insertMode) =>
                         /\ api'[i].createBlock = 0
                         /\ api'[i].fetch > 0 =>
                                apiKey /\ focusedBlockUid /\ youtubeResult
          /\ \A response \in Responses :
                 FetchSettles(i, response) =>
                     LET array == response.kind \in {"array", "content"}
                     IN  /\ api'[i].createBlock > 0 => array /\ response.n > 0
                         /\ pc'[i] = "insert" <=> array /\ response.n > 0
          /\ api'[i].createBlock > api[i].createBlock =>
                 pc'[i] \in {"insert", "inserted", "insertError"}
          /\ pc'[i] \in {"noKey", "noFocus", "noUrl", "empty", "fetchError"} =>
                 api'[i].createBlock = 0
          /\ pc'[i] = "noKey" => api'[i].fetch = 0]_vars

\* a transcript of two segments has been inserted as nested blocks: one fetch
\* and three createBlock calls
C31_Witness ==
    /\ lastOp = "inserted"
    /\ pc[1] = "inserted"
    /\ api[1] = [fetch |-> 1, createBlock |-> 3]

\* the block itself and its ancestors, from the closest to the furthest
Chain(b) == <<b>> \o ClosestFirst(parent, b)

\* C32: findYouTubeUrl gives the URL of the nearest block.  With
\* :block/parents ordered from the closest to the furthest ancestor, the
\* result is the URL and the uid of the first block, among the starting
\* block, its parent, its grandparent and so on, whose string holds a
\* YouTube URL, and null when none of them holds one.
C32_NearestBlock ==
    (res.stage = "found" /\ arg.order = "closest first") =>
        LET chain   == Chain(arg.blockUid)
            holders == {k \in 1..Len(chain) :
                           extractYouTubeUrl(arg.strings[chain[k]]) # NoUrl}
        IN  IF holders = {} THEN res.found = NoBlock
            ELSE LET k == CHOOSE x \in holders : \A y \in holders : x <= y
                 IN  res.found = [url |-> extractYouTubeUrl(arg.strings[chain[k]]),
                                  blockUid |-> chain[k]]

====
